---------------------------- MODULE Spec2Model ----------------------------
(***************************************************************************)
(* Model of the multi-project orchestrator scripts (publish, build, zip,   *)
(* clean): the recursive directory scanner, the project detector and the   *)
(* bounded-concurrency work queue of main().                               *)
(***************************************************************************)
EXTENDS Integers, Sequences, FiniteSets, TLC

(***************************************************************************)
(* Bounds of the model.                                                    *)
(***************************************************************************)
MaxRoots == 2

MaxConcurrency == 3

MaxEntries == 3

MaxPatterns == 2

(***************************************************************************)
(* Path strings.  A path string is modelled by its root form, its segments *)
(* and whether it ends in a separator:                                     *)
(*   rel    "a/b"       posix  "/w/a"                                      *)
(*   drive  "C:\w\a"    bslash "\w\a"                                      *)
(***************************************************************************)
Path(root, segs, trail) == [root |-> root, segs |-> segs, trail |-> trail]

NamePath(name) == Path("rel", <<name>>, FALSE)

RECURSIVE Normalize(_)
\* path.normalize on the segments: "." segments are dropped.
Normalize(segs) ==
    IF segs = <<>> THEN <<>>
    ELSE IF Head(segs) = "." THEN Normalize(Tail(segs))
    ELSE <<Head(segs)>> \o Normalize(Tail(segs))

\* path.join(p, q): the two strings are glued with a separator and
\* normalized; the result keeps p's root and q's trailing separator.
join(p, q) == Path(p.root, Normalize(p.segs \o q.segs), q.trail)

\* dir.startsWith("\\") || /^[A-Za-z]:/.test(dir)
isAbsoluteForm(dir) == dir.root = "bslash" \/ dir.root = "drive"

fullPathOf(cwd, dir) == IF isAbsoluteForm(dir) THEN dir ELSE join(cwd, dir)

(***************************************************************************)
(* The file system.  A directory is named by its segments from the root of *)
(* the file system; NoDir stands for a path that names no directory.       *)
(***************************************************************************)
NoDir == <<"?">>

Entry(name, isDir) == [name |-> name, isDirectory |-> isDir]

DirNodes ==
    { <<>>, <<"w">>, <<"w", "a">>, <<"w", "a", "b">>,
      <<"w", "a", "node_modules">>, <<"w", "c">>, <<"w", "node_modules">> }

\* readdir(dir, {withFileTypes: true}) of an existing, readable directory.
\* "gone" is listed by its parent but has vanished when it is opened.
\* "loop" is a symbolic link to the directory w/a: the Dirent of a link
\* answers false to isDirectory().
Entries(node) ==
    CASE node = <<>> -> << Entry("w", TRUE) >>
      [] node = <<"w">> ->
            << Entry("a", TRUE), Entry("c", TRUE), Entry("gone", TRUE),
               Entry("node_modules", TRUE), Entry("readme.md", FALSE) >>
      [] node = <<"w", "a">> ->
            << Entry("app.csproj", FALSE), Entry("b", TRUE),
               Entry("debug.log", FALSE), Entry("node_modules", TRUE),
               Entry("package.json", FALSE) >>
      [] node = <<"w", "a", "b">> ->
            << Entry(".csproj", FALSE), Entry("lib.vbproj", FALSE),
               Entry("loop", FALSE), Entry("x.csproj", FALSE) >>
      [] node = <<"w", "a", "node_modules">> ->
            << Entry("package.json", FALSE) >>
      [] node = <<"w", "c">> ->
            << Entry("dist", FALSE), Entry("package.json", FALSE) >>
      [] OTHER -> <<>>

\* The directory the operating system opens for a path string.  On win32 a
\* drive path and a (back)slash-rooted path start at the drive root; on posix
\* a backslash or a drive letter is an ordinary file-name character, so such
\* a string names a file of the working directory, and none exists.
Resolve(platform, cwd, p) ==
    LET node == IF p.root = "rel" THEN Normalize(cwd.segs \o p.segs)
                ELSE Normalize(p.segs)
    IN  IF platform = "posix" /\ p.root \in {"drive", "bslash"} THEN NoDir
        ELSE IF node \in DirNodes THEN node ELSE NoDir

(***************************************************************************)
(* File names and path.extname.                                            *)
(***************************************************************************)
Names ==
    { "package.json", "app.csproj", "x.csproj", "lib.vbproj", "m.fsproj",
      ".csproj", "readme.md", "node_modules", "a", "b" }

\* extname(name): from the last "." to the end; "" when there is no "." or
\* the only "." is the first character.
extname(name) ==
    CASE name = "package.json" -> ".json"
      [] name = "app.csproj" -> ".csproj"
      [] name = "x.csproj" -> ".csproj"
      [] name = "lib.vbproj" -> ".vbproj"
      [] name = "m.fsproj" -> ".fsproj"
      [] name = "readme.md" -> ".md"
      [] OTHER -> ""

dotnetExtensions == {".csproj", ".vbproj", ".fsproj"}

Project(path, type, file) == [path |-> path, type |-> type, file |-> file]

detectProjectDotnetFirst(dir, entries) ==
    LET dn == { i \in 1..Len(entries) : extname(entries[i].name) \in dotnetExtensions }
        first == CHOOSE i \in dn : \A j \in dn : i <= j
    IN  IF dn # {}
        THEN << Project(dir, "dotnet", join(dir, NamePath(entries[first].name))) >>
        ELSE IF \E i \in 1..Len(entries) : entries[i].name = "package.json"
        THEN << Project(dir, "node", join(dir, NamePath("package.json"))) >>
        ELSE <<>>

\* Mutant: the last entry with a .NET extension is taken.
detectProjectLastMatch(dir, entries) ==
    LET hasPackageJson == \E i \in 1..Len(entries) : entries[i].name = "package.json"
        dn == { i \in 1..Len(entries) : extname(entries[i].name) \in dotnetExtensions }
        last == CHOOSE i \in dn : \A j \in dn : i >= j
    IN  IF hasPackageJson
        THEN << Project(dir, "node", join(dir, NamePath("package.json"))) >>
        ELSE IF dn # {}
        THEN << Project(dir, "dotnet", join(dir, NamePath(entries[last].name))) >>
        ELSE <<>>

\* detectProject(dir, entries): <<project>> or <<>> for null.
detectProject(dir, entries) ==
    LET hasPackageJson == \E i \in 1..Len(entries) : entries[i].name = "package.json"
        dn == { i \in 1..Len(entries) : extname(entries[i].name) \in dotnetExtensions }
        first == CHOOSE i \in dn : \A j \in dn : i <= j
    IN  IF hasPackageJson
        THEN << Project(dir, "node", join(dir, NamePath("package.json"))) >>
        ELSE IF dn # {}
        THEN << Project(dir, "dotnet", join(dir, NamePath(entries[first].name))) >>
        ELSE <<>>


(***************************************************************************)
(* State.                                                                  *)
(***************************************************************************)
VARIABLES
    platform,      \* "win32" or "posix": which node:path and file system
    cwd,           \* process.cwd()
    unreadable,    \* directories whose listing fails (permission)
    op,            \* the script that runs: "publish", "build", "zip", "clean"
    directories,   \* argv.directories
    dryRun,        \* argv.dryRun
    concurrency,   \* argv.concurrency
    output,        \* argv.output: the output template of the command line
    probeDir,      \* detectProject called on its own: the directory,
    probeEntries,  \* the listing,
    detected,      \* and what it returned
    probeFiles,    \* the file selection of executeZip on its own: config.files,
    probeExclude,  \* config.exclude,
    added,         \* and the entries it added to the archive
    mainpc,        \* position of main()
    stack,         \* the active scanDirectories calls, innermost last
    visited,       \* the Set<string> shared by all scanDirectories calls
    listed,        \* every readdir call made so far, in order
    discovered,    \* the projects main prints after the scan
    projects,      \* main's projects array: scan result, then work queue
    results,       \* main's results array
    processed,     \* main's processed counter
    workers,       \* the processQueue calls: their position and project
    invoked,       \* every project a strategy was called on, in order
    execs,         \* external processes started (promisifiedExec)
    fsMutations,   \* paths deleted (rm) and files opened for writing
    manifests,     \* what reading each project's package.json gave
    exits,         \* the external processes that have ended, and how
    report,        \* the final report main prints
    exitCode       \* the exit status of the process, <<>> while it runs

detectVars == <<probeDir, probeEntries, detected, probeFiles, probeExclude, added>>

envVars ==
    <<platform, cwd, unreadable, op, directories, dryRun, concurrency, output,
      detectVars>>

scanVars == <<stack, visited, listed, discovered>>

queueVars == <<results, processed, workers, invoked, execs, fsMutations>>

traceVars == <<manifests, exits>>

reportVars == <<report, exitCode>>

vars == <<envVars, mainpc, scanVars, projects, queueVars, traceVars, reportVars>>

(***************************************************************************)
(* scanDirectories.  A call is a frame: its directories argument, the      *)
(* index of the loop, and its local projects array.                        *)
(***************************************************************************)
Frame(dirs) == [directories |-> dirs, i |-> 1, projects |-> <<>>]

Top == stack[Len(stack)]

SetTop(f) == [stack EXCEPT ![Len(stack)] = f]

\* const fullPath = ... of the loop iteration the innermost call is at.
fullPath == fullPathOf(cwd, Top.directories[Top.i])

\* Whether readdir(p) succeeds.
Readable(p) ==
    LET node == Resolve(platform, cwd, p)
    IN  node # NoDir /\ node \notin unreadable

RECURSIVE SelectAllDirs(_, _)
\* Mutant: node_modules is not left out.
SelectAllDirs(parent, entries) ==
    IF entries = <<>> THEN <<>>
    ELSE LET e == Head(entries)
             rest == SelectAllDirs(parent, Tail(entries))
         IN  IF e.isDirectory
             THEN <<join(parent, NamePath(e.name))>> \o rest
             ELSE rest

RECURSIVE SelectDirs(_, _)
\* entries.filter(isDirectory && name !== "node_modules").map(join(fullPath, name))
SelectDirs(parent, entries) ==
    IF entries = <<>> THEN <<>>
    ELSE LET e == Head(entries)
             rest == SelectDirs(parent, Tail(entries))
         IN  IF e.isDirectory /\ e.name # "node_modules"
             THEN <<join(parent, NamePath(e.name))>> \o rest
             ELSE rest

InLoop == mainpc = "scan" /\ stack # <<>> /\ Top.i <= Len(Top.directories)

\* if (visited.has(fullPath)) continue;
ScanVisited ==
    /\ InLoop
    /\ fullPath \in visited
    /\ stack' = SetTop([Top EXCEPT !.i = @ + 1])
    /\ UNCHANGED <<envVars, traceVars, reportVars, mainpc, visited, listed, discovered,
                   projects, queueVars>>

\* visited.add(fullPath); readdir succeeds; detectProject; the recursive call
\* on the subdirectories starts.
ScanReaddir ==
    /\ InLoop
    /\ fullPath \notin visited
    /\ Readable(fullPath)
    /\ LET entries == Entries(Resolve(platform, cwd, fullPath))
           project == detectProject(fullPath, entries)
           subdirectories == SelectDirs(fullPath, entries)
       IN  stack' = SetTop([Top EXCEPT !.i = @ + 1, !.projects = @ \o project])
                      \o <<Frame(subdirectories)>>
    /\ visited' = visited \cup {fullPath}
    /\ listed' = Append(listed, fullPath)
    /\ UNCHANGED <<envVars, traceVars, reportVars, mainpc, discovered, projects, queueVars>>

\* Mutant: the error of readdir is not caught and ends the scan and main.
ScanReaddirFailsAborts ==
    /\ InLoop
    /\ fullPath \notin visited
    /\ ~Readable(fullPath)
    /\ stack' = <<>>
    /\ mainpc' = "crashed"
    /\ visited' = visited \cup {fullPath}
    /\ listed' = Append(listed, fullPath)
    /\ UNCHANGED <<envVars, traceVars, reportVars, discovered, projects, queueVars>>

\* visited.add(fullPath); readdir throws; the catch logs and the loop goes on.
ScanReaddirFails ==
    /\ InLoop
    /\ fullPath \notin visited
    /\ ~Readable(fullPath)
    /\ stack' = SetTop([Top EXCEPT !.i = @ + 1])
    /\ visited' = visited \cup {fullPath}
    /\ listed' = Append(listed, fullPath)
    /\ UNCHANGED <<envVars, traceVars, reportVars, mainpc, discovered, projects, queueVars>>

\* return projects; of a recursive call: projects.push(...subProjects).
ScanReturn ==
    /\ mainpc = "scan"
    /\ Len(stack) > 1
    /\ Top.i > Len(Top.directories)
    /\ LET caller == stack[Len(stack) - 1]
       IN  stack' = SubSeq(stack, 1, Len(stack) - 2)
                      \o <<[caller EXCEPT !.projects = @ \o Top.projects]>>
    /\ UNCHANGED <<envVars, traceVars, reportVars, mainpc, visited, listed, discovered,
                   projects, queueVars>>

\* return projects; of the call made by main; main returns when it is empty.
ScanDone ==
    /\ mainpc = "scan"
    /\ Len(stack) = 1
    /\ Top.i > Len(Top.directories)
    /\ projects' = Top.projects
    /\ discovered' = Top.projects
    /\ stack' = <<>>
    /\ mainpc' = IF Top.projects = <<>> THEN "done" ELSE "start"
    /\ exitCode' = IF Top.projects = <<>> THEN <<0>> ELSE exitCode
    /\ UNCHANGED <<envVars, traceVars, report, visited, listed, queueVars>>

(***************************************************************************)
(* Results and the strategies' view of the file system.                    *)
(***************************************************************************)
\* The default of --output, "{project}-{timestamp}.{format}", which is
\* also the output of every default configuration; "cli" is another
\* template given on the command line.
DefaultOutput == "default"

Outputs == {DefaultOutput, "cli"}

\* The output of the configuration readCompressionConfig returns: the
\* template of package.json's zip field over the one of the defaults.
configOutput(project, manifest) ==
    IF project.type = "node" /\ manifest = "zip" THEN "manifest" ELSE DefaultOutput

\* config.output || output: the file name, named by the template it is
\* generated from.
outputOf(project, manifest) ==
    IF configOutput(project, manifest) # "" THEN configOutput(project, manifest)
    ELSE output

\* What a strategy returns: { success, message, error?, outputFile? }.
\* message names which message text it is; "" stands for undefined.
Outcome(success, message, error, outputFile) ==
    [success |-> success, message |-> message, error |-> error,
     outputFile |-> outputFile]

NoOutcome == Outcome(FALSE, "", "", "")

\* results.push({ project, success, message, error, (outputFile) })
ProcessResult(project, r) ==
    [project |-> project, success |-> r.success, message |-> r.message,
     error |-> r.error, outputFile |-> r.outputFile]

\* The names found in a project's directory.
NamesIn(project) ==
    LET node == Resolve(platform, cwd, project.path)
    IN  IF node = NoDir THEN {}
        ELSE { Entries(node)[i].name : i \in 1..Len(Entries(node)) }

(***************************************************************************)
(* executeClean: the hard-coded list and the glob matches.                 *)
(***************************************************************************)
filesToClean ==
    << "test-dist", "*.log", "bin", "dist", "node_modules", "package-lock.json",
       "pnpm-lock.yaml", "bun.lockb", "obj", "release", "build", "out",
       ".turbo", ".expo" >>

\* glob(pattern, {cwd}): a literal pattern matches the entry of that name,
\* "*.log" the entries that end in ".log".
globMatches(pattern, names) ==
    IF pattern = "*.log"
    THEN IF "debug.log" \in names THEN <<"debug.log">> ELSE <<>>
    ELSE IF pattern \in names THEN <<pattern>> ELSE <<>>

RECURSIVE matchedFiles(_, _)
\* The matches of the patterns from index k on, in the order of the two loops.
matchedFiles(k, names) ==
    IF k > Len(filesToClean) THEN <<>>
    ELSE globMatches(filesToClean[k], names) \o matchedFiles(k + 1, names)

(***************************************************************************)
(* executeZip: the compression configuration and the exclusion test.       *)
(***************************************************************************)
\* config.files after readCompressionConfig.  manifest is what reading
\* package.json gave: "bad" (readFile or JSON.parse threw: the catch falls
\* through to the last default), "plain" (no zip key), "zip" (a zip key
\* that lists files and names the output), "excluded" (a zip key that lists
\* only files the default exclusion patterns match).
configFiles(project, manifest) ==
    IF project.type = "node" /\ manifest = "plain" THEN <<"dist", "build", "out">>
    ELSE IF project.type = "node" /\ manifest = "zip" THEN <<"b", "node_modules">>
    ELSE IF project.type = "node" /\ manifest = "excluded"
    THEN <<"node_modules", "debug.log">>
    ELSE IF project.type = "dotnet" THEN <<"bin/Release", "bin/Debug", "publish">>
    ELSE <<"dist", "build", "out", "bin", "publish">>

configExclude(project, manifest) ==
    IF project.type = "dotnet" /\ manifest # "bad"
    THEN <<"obj", "node_modules", "*.log", ".git">>
    ELSE <<"node_modules", "*.log", ".git">>

\* The characters of a string; a name outside the table is one symbol.
Chars(s) ==
    CASE s = "dist" -> <<"d", "i", "s", "t">>
      [] s = "build" -> <<"b", "u", "i", "l", "d">>
      [] s = "out" -> <<"o", "u", "t">>
      [] s = "b" -> <<"b">>
      [] s = "node_modules" -> <<"n", "o", "d", "e", "_", "m", "o", "d", "u", "l", "e", "s">>
      [] s = "debug.log" -> <<"d", "e", "b", "u", "g", ".", "l", "o", "g">>
      [] s = "bin" -> <<"b", "i", "n">>
      [] s = "publish" -> <<"p", "u", "b", "l", "i", "s", "h">>
      [] s = "Release" -> <<"R", "e", "l", "e", "a", "s", "e">>
      [] s = "Debug" -> <<"D", "e", "b", "u", "g">>
      [] s = "obj" -> <<"o", "b", "j">>
      [] s = ".git" -> <<".", "g", "i", "t">>
      [] s = "*.log" -> <<"*", ".", "l", "o", "g">>
      [] s = "de*" -> <<"d", "e", "*">>
      [] s = "*is*" -> <<"*", "i", "s", "*">>
      [] s = "*" -> <<"*">>
      [] s = "d*t" -> <<"d", "*", "t">>
      [] s = "sock" -> <<"s", "o", "c", "k">>
      [] OTHER -> <<s>>

\* basename(path): what follows the last separator.
basename(path) ==
    CASE path = "bin/Release" -> "Release"
      [] path = "bin/Debug" -> "Debug"
      [] OTHER -> path

\* String.prototype.startsWith, endsWith, includes and slice on characters.
startsWith(str, prefix) ==
    Len(prefix) <= Len(str) /\ SubSeq(str, 1, Len(prefix)) = prefix

endsWith(str, suffix) ==
    /\ Len(suffix) <= Len(str)
    /\ SubSeq(str, Len(str) - Len(suffix) + 1, Len(str)) = suffix

includes(str, part) ==
    \E i \in 1..(Len(str) + 1) :
        /\ i + Len(part) - 1 <= Len(str)
        /\ SubSeq(str, i, i + Len(part) - 1) = part

\* str.slice(from, str.length - cut)
slice(str, from, cut) == SubSeq(str, from + 1, Len(str) - cut)

\* Mutant: a pattern with a leading "*" is always a suffix pattern.
shouldExcludeSuffix(path, excludePatterns) ==
    LET pathName == Chars(basename(path))
    IN  \E k \in 1..Len(excludePatterns) :
           LET pattern == Chars(excludePatterns[k])
           IN  IF startsWith(pattern, <<"*">>)
               THEN endsWith(pathName, slice(pattern, 1, 0))
               ELSE IF endsWith(pattern, <<"*">>)
               THEN startsWith(pathName, slice(pattern, 0, 1))
               ELSE pathName = pattern

\* shouldExclude(path, excludePatterns): the base name of the path matches
\* one of the patterns.
shouldExclude(path, excludePatterns) ==
    LET pathName == Chars(basename(path))
    IN  \E k \in 1..Len(excludePatterns) :
           LET pattern == Chars(excludePatterns[k])
           IN  IF startsWith(pattern, <<"*">>) /\ endsWith(pattern, <<"*">>)
               THEN includes(pathName, slice(pattern, 1, 1))
               ELSE IF startsWith(pattern, <<"*">>)
               THEN endsWith(pathName, slice(pattern, 1, 0))
               ELSE IF endsWith(pattern, <<"*">>)
               THEN startsWith(pathName, slice(pattern, 0, 1))
               ELSE pathName = pattern

RECURSIVE filesToCompress(_, _, _)
\* The first loop of executeZip: stat succeeds and shouldExclude is false.
filesToCompress(files, names, excludePatterns) ==
    IF files = <<>> THEN <<>>
    ELSE LET rest == filesToCompress(Tail(files), names, excludePatterns)
         IN  IF Head(files) \in names /\ ~shouldExclude(Head(files), excludePatterns)
             THEN <<Head(files)>> \o rest
             ELSE rest

(***************************************************************************)
(* processQueue.  A worker is one call of processQueue: where it is        *)
(* suspended (pc), the project it holds (cur, <<>> for none), the value    *)
(* its strategy has returned but it has not yet received (res), and the    *)
(* strategy's local list (todo).                                           *)
(***************************************************************************)
Worker(pc, cur, res, todo) == [pc |-> pc, cur |-> cur, res |-> res, todo |-> todo]

Exited == Worker("exited", <<>>, NoOutcome, <<>>)

\* promisifiedExec(command, {cwd}); step tells the two pnpm checks and the
\* build of a publish from the publish itself.
Exec(project, command, step) ==
    [cwd |-> project.path, command |-> command, step |-> step]

\* checkPnpmAvailable(): promisifiedExec("pnpm --version")
pnpmVersion(project, step) == Exec(project, "pnpm --version", step)

\* The build or publish command of a project: "pnpm run build" or
\* "npm run build", "pnpm publish" or "npm publish", "dotnet build ..." or
\* "dotnet publish ...".
CommandOf(project) ==
    IF project.type = "dotnet"
    THEN Exec(project, IF op = "build" THEN "dotnet build" ELSE "dotnet publish", op)
    ELSE Exec(project, IF op = "build" THEN "run build" ELSE "publish", op)

\* promisifiedExec resolved (ok) or rejected.
Exit(exec, ok) == [exec |-> exec, ok |-> ok]

\* JSON.parse(await readFile(project.file)) gave this manifest.
Read(project, manifest) == [project |-> project, manifest |-> manifest]

Mutation(kind, path) == [kind |-> kind, path |-> path]

dryRunOutcome == Outcome(TRUE, "dry-run", "", "")

unknownType == Outcome(FALSE, "unknown-type", "", "")

\* The strategy call of processQueue up to its first suspension: the state
\* the worker is left in.
Begin(project) ==
    LET p == <<project>>
    IN  CASE project.type \notin {"node", "dotnet"} ->
               Worker("settled", p, unknownType, <<>>)
          [] op = "clean" -> Worker("glob", p, NoOutcome, <<>>)
          [] op # "clean" /\ project.type = "node" ->
               Worker("readFile", p, NoOutcome, <<>>)
          [] op = "zip" /\ project.type = "dotnet" ->
               IF dryRun
               THEN Worker("settled", p, Outcome(TRUE, "dry-run", "", outputOf(project, "plain")),
                           <<>>)
               ELSE Worker("stat", p, Outcome(TRUE, "ok", "", outputOf(project, "plain")),
                           filesToCompress(configFiles(project, "plain"),
                                           NamesIn(project),
                                           configExclude(project, "plain")))
          [] OTHER ->
               IF dryRun THEN Worker("settled", p, dryRunOutcome, <<>>)
               ELSE Worker("exec", p, NoOutcome, <<>>)

\* The external processes that call starts before it suspends.
BeginExecs(project) ==
    IF op \in {"build", "publish"} /\ project.type = "dotnet" /\ ~dryRun
    THEN {Exec(project, IF op = "build" THEN "dotnet build" ELSE "dotnet publish", op)}
    ELSE {}

\* Mutant: the head is taken and the entry behind it is lost with it.
LoopDropsNext(w) ==
    IF projects = <<>>
    THEN /\ workers' = [workers EXCEPT ![w] = Exited]
         /\ UNCHANGED <<projects, processed, invoked, execs>>
    ELSE /\ projects' = IF Len(projects) > 1 THEN Tail(Tail(projects)) ELSE <<>>
         /\ processed' = processed + 1
         /\ invoked' = Append(invoked, Head(projects))
         /\ workers' = [workers EXCEPT ![w] = Begin(Head(projects))]
         /\ execs' = execs \cup BeginExecs(Head(projects))

\* Mutant: a worker that finds the queue empty waits for more work.
LoopWaitsOnEmpty(w) ==
    IF projects = <<>>
    THEN /\ workers' = [workers EXCEPT ![w] = Worker("idle", <<>>, NoOutcome, <<>>)]
         /\ UNCHANGED <<projects, processed, invoked, execs>>
    ELSE /\ projects' = Tail(projects)
         /\ processed' = processed + 1
         /\ invoked' = Append(invoked, Head(projects))
         /\ workers' = [workers EXCEPT ![w] = Begin(Head(projects))]
         /\ execs' = execs \cup BeginExecs(Head(projects))

\* Mutant: the counter is not advanced.
LoopForgetsCount(w) ==
    IF projects = <<>>
    THEN /\ workers' = [workers EXCEPT ![w] = Exited]
         /\ UNCHANGED <<projects, processed, invoked, execs>>
    ELSE /\ projects' = Tail(projects)
         /\ processed' = processed
         /\ invoked' = Append(invoked, Head(projects))
         /\ workers' = [workers EXCEPT ![w] = Begin(Head(projects))]
         /\ execs' = execs \cup BeginExecs(Head(projects))

\* Mutant: projects.pop() instead of projects.shift().
LoopTakesLast(w) ==
    IF projects = <<>>
    THEN /\ workers' = [workers EXCEPT ![w] = Exited]
         /\ UNCHANGED <<projects, processed, invoked, execs>>
    ELSE /\ projects' = SubSeq(projects, 1, Len(projects) - 1)
         /\ processed' = processed + 1
         /\ invoked' = Append(invoked, projects[Len(projects)])
         /\ workers' = [workers EXCEPT ![w] = Begin(projects[Len(projects)])]
         /\ execs' = execs \cup BeginExecs(projects[Len(projects)])

\* Mutant: while (projects.length > 1).
LoopExitsEarly(w) ==
    IF Len(projects) <= 1
    THEN /\ workers' = [workers EXCEPT ![w] = Exited]
         /\ UNCHANGED <<projects, processed, invoked, execs>>
    ELSE /\ projects' = Tail(projects)
         /\ processed' = processed + 1
         /\ invoked' = Append(invoked, Head(projects))
         /\ workers' = [workers EXCEPT ![w] = Begin(Head(projects))]
         /\ execs' = execs \cup BeginExecs(Head(projects))

\* while (projects.length > 0) { project = projects.shift(); processed++;
\* await execute...(project) }: worker w takes the head of the queue and
\* calls the strategy, or leaves the loop.
Loop(w) ==
    IF projects = <<>>
    THEN /\ workers' = [workers EXCEPT ![w] = Exited]
         /\ UNCHANGED <<projects, processed, invoked, execs>>
    ELSE /\ projects' = Tail(projects)
         /\ processed' = processed + 1
         /\ invoked' = Append(invoked, Head(projects))
         /\ workers' = [workers EXCEPT ![w] = Begin(Head(projects))]
         /\ execs' = execs \cup BeginExecs(Head(projects))

\* Mutant: a failed project is run again by the same worker.
CompleteRetries(w, r) ==
    /\ results' = Append(results, ProcessResult(workers[w].cur[1], r))
    /\ IF r.success THEN Loop(w)
       ELSE /\ invoked' = Append(invoked, workers[w].cur[1])
            /\ workers' = [workers EXCEPT ![w] = Begin(workers[w].cur[1])]
            /\ execs' = execs \cup BeginExecs(workers[w].cur[1])
            /\ UNCHANGED <<projects, processed>>

\* Mutant: a failure ends the loop of the worker.
CompleteStopsOnFailure(w, r) ==
    /\ results' = Append(results, ProcessResult(workers[w].cur[1], r))
    /\ IF r.success THEN Loop(w)
       ELSE /\ workers' = [workers EXCEPT ![w] = Exited]
            /\ UNCHANGED <<projects, processed, invoked, execs>>

\* Mutant: the result is put in front of the earlier ones.
CompleteUnshifts(w, r) ==
    /\ results' = <<ProcessResult(workers[w].cur[1], r)>> \o results
    /\ Loop(w)

\* The strategy returns r to worker w: results.push, then the loop goes on.
Complete(w, r) ==
    /\ results' = Append(results, ProcessResult(workers[w].cur[1], r))
    /\ Loop(w)

\* The strategy of worker w goes on to its next suspension.
Goto(w, pc, todo, execd) ==
    /\ workers' = [workers EXCEPT ![w].pc = pc, ![w].todo = todo]
    /\ execs' = execs \cup execd
    /\ UNCHANGED <<projects, processed, invoked, results>>

\* The workers whose strategy call returned without waiting for anything:
\* their continuations are queued microtasks.
Settled == { w \in DOMAIN workers : workers[w].pc = "settled" }

\* The position of the call on project p among the strategy calls.
CallIndex(p) == CHOOSE i \in 1..Len(invoked) : invoked[i] = p

\* Worker w is suspended at pc and its continuation is the next to run:
\* queued continuations run in the order their calls were made, and before
\* the callback of any input/output that completes.
Running(w, pc) ==
    /\ mainpc = "await"
    /\ w \in DOMAIN workers
    /\ workers[w].pc = pc
    /\ IF pc = "settled"
       THEN \A v \in Settled : CallIndex(workers[w].cur[1]) <= CallIndex(workers[v].cur[1])
       ELSE Settled = {}

Cur(w) == workers[w].cur[1]

(***************************************************************************)
(* main: the workers are started, awaited, and the report is printed.      *)
(***************************************************************************)
Min(a, b) == IF a < b THEN a ELSE b

\* Mutant: one call of processQueue too many.
StartWorkersOneMore ==
    /\ mainpc = "start"
    /\ LET n == concurrency + 1
           k == IF n < 0 THEN 0 ELSE Min(n, Len(projects))
       IN  /\ workers' = [w \in 1..n |->
                             IF w <= Len(projects) THEN Begin(projects[w]) ELSE Exited]
           /\ projects' = SubSeq(projects, k + 1, Len(projects))
           /\ processed' = k
           /\ invoked' = SubSeq(projects, 1, k)
           /\ execs' = UNION { BeginExecs(projects[w]) : w \in 1..k }
    /\ mainpc' = "await"
    /\ UNCHANGED <<envVars, traceVars, reportVars, scanVars, results, fsMutations>>

\* Mutant: at least one call of processQueue is made.
StartWorkersAtLeastOne ==
    /\ mainpc = "start"
    /\ LET n == IF concurrency < 1 THEN 1 ELSE concurrency
           k == Min(n, Len(projects))
       IN  /\ workers' = [w \in 1..n |->
                             IF w <= Len(projects) THEN Begin(projects[w]) ELSE Exited]
           /\ projects' = SubSeq(projects, k + 1, Len(projects))
           /\ processed' = k
           /\ invoked' = SubSeq(projects, 1, k)
           /\ execs' = UNION { BeginExecs(projects[w]) : w \in 1..k }
    /\ mainpc' = "await"
    /\ UNCHANGED <<envVars, traceVars, reportVars, scanVars, results, fsMutations>>

\* const workers = Array.from({ length: concurrency }, processQueue): the
\* calls are made one after the other without suspension; each takes the
\* head of the queue, or returns at once when the queue is empty.
StartWorkers ==
    /\ mainpc = "start"
    /\ LET k == IF concurrency < 0 THEN 0 ELSE Min(concurrency, Len(projects))
       IN  /\ workers' = [w \in 1..concurrency |->
                             IF w <= Len(projects) THEN Begin(projects[w]) ELSE Exited]
           /\ projects' = SubSeq(projects, k + 1, Len(projects))
           /\ processed' = k
           /\ invoked' = SubSeq(projects, 1, k)
           /\ execs' = UNION { BeginExecs(projects[w]) : w \in 1..k }
    /\ mainpc' = "await"
    /\ UNCHANGED <<envVars, traceVars, reportVars, scanVars, results, fsMutations>>

\* await of a strategy call that returned without waiting for anything.
Resume(w) ==
    /\ Running(w, "settled")
    /\ Complete(w, workers[w].res)
    /\ UNCHANGED <<envVars, traceVars, reportVars, mainpc, scanVars, fsMutations>>

\* Mutant: only the failures that carry an error text are kept.
failedResultsWithError(rs) == SelectSeq(rs, LAMBDA r : ~r.success /\ r.error # "")

\* results.filter((r) => !r.success)
failedResults(rs) == SelectSeq(rs, LAMBDA r : ~r.success)

\* The line "- path: message" (and the error line) printed for a failure.
FailureLine(r) == [path |-> r.project.path, message |-> r.message, error |-> r.error]

\* The line "- path/outputFile" printed for an archive.
ArchiveLine(r) == [path |-> r.project.path, outputFile |-> r.outputFile]

NoReport ==
    [total |-> 0, successful |-> 0, failed |-> 0, failures |-> <<>>, archives |-> <<>>]

\* The final report: the three counts, the archives (zip only, when a
\* result succeeded) and the failures (when a result failed).
ReportOf(rs) ==
    LET successful == Len(SelectSeq(rs, LAMBDA r : r.success))
        failed == Len(failedResults(rs))
        zipped == SelectSeq(rs, LAMBDA r : r.success /\ r.outputFile # "")
    IN  [total |-> Len(rs), successful |-> successful, failed |-> failed,
         failures |-> IF failed > 0
                      THEN [i \in 1..Len(failedResults(rs)) |->
                               FailureLine(failedResults(rs)[i])]
                      ELSE <<>>,
         archives |-> IF op = "zip" /\ successful > 0
                      THEN [i \in 1..Len(zipped) |-> ArchiveLine(zipped[i])]
                      ELSE <<>>]

\* await Promise.all(workers) returns; the final report is printed; main
\* returns and the process ends with the default exit status.
Report ==
    /\ mainpc = "await"
    /\ \A w \in DOMAIN workers : workers[w].pc = "exited"
    /\ mainpc' = "done"
    /\ report' = ReportOf(results)
    /\ exitCode' = <<0>>
    /\ UNCHANGED <<envVars, traceVars, scanVars, projects, queueVars>>

(***************************************************************************)
(* executeBuild.                                                           *)
(***************************************************************************)
Manifests == {"bad", "nobuild", "build"}

\* Mutant: pnpm is looked for before the scripts.build test.
BuildReadManifestPnpmFirst(w) ==
    /\ op = "build"
    /\ Running(w, "readFile")
    /\ \E manifest \in Manifests :
         /\ CASE manifest = "bad" -> Complete(w, Outcome(FALSE, "read-failed", "", ""))
             [] manifest = "nobuild" ->
                  /\ results' = Append(results,
                        ProcessResult(Cur(w), Outcome(FALSE, "no-build-script", "", "")))
                  /\ IF projects = <<>>
                     THEN /\ workers' = [workers EXCEPT ![w] = Exited]
                          /\ execs' = execs \cup {pnpmVersion(Cur(w), "build")}
                          /\ UNCHANGED <<projects, processed, invoked>>
                     ELSE /\ projects' = Tail(projects)
                          /\ processed' = processed + 1
                          /\ invoked' = Append(invoked, Head(projects))
                          /\ workers' = [workers EXCEPT ![w] = Begin(Head(projects))]
                          /\ execs' = execs \cup {pnpmVersion(Cur(w), "build")}
                                         \cup BeginExecs(Head(projects))
             [] OTHER -> Goto(w, "pnpm", <<>>, {pnpmVersion(Cur(w), "build")})
         /\ manifests' = manifests \cup {Read(Cur(w), manifest)}
    /\ UNCHANGED <<envVars, exits, reportVars, mainpc, scanVars, fsMutations>>

\* readFile + JSON.parse of package.json; the scripts.build test.
BuildReadManifest(w) ==
    /\ op = "build"
    /\ Running(w, "readFile")
    /\ \E manifest \in Manifests :
         /\ CASE manifest = "bad" -> Complete(w, Outcome(FALSE, "read-failed", "", ""))
             [] manifest = "nobuild" ->
                  Complete(w, Outcome(FALSE, "no-build-script", "", ""))
             [] OTHER -> Goto(w, "pnpm", <<>>, {pnpmVersion(Cur(w), "build")})
         /\ manifests' = manifests \cup {Read(Cur(w), manifest)}
    /\ UNCHANGED <<envVars, exits, reportVars, mainpc, scanVars, fsMutations>>

\* checkPnpmAvailable returned; the dry-run test; the build command starts.
BuildPnpmChecked(w) ==
    /\ op = "build"
    /\ Running(w, "pnpm")
    /\ IF dryRun THEN Complete(w, dryRunOutcome)
       ELSE Goto(w, "exec", <<>>, {Exec(Cur(w), "run build", "build")})
    /\ UNCHANGED <<envVars, traceVars, reportVars, mainpc, scanVars, fsMutations>>

\* The build or publish command exits: with success, or the catch.
ExecExit(w) ==
    /\ op \in {"build", "publish"}
    /\ Running(w, "exec")
    /\ \E ok \in BOOLEAN :
         /\ Complete(w, IF ok THEN Outcome(TRUE, "ok", "", "")
                        ELSE Outcome(FALSE, "failed", "stderr", ""))
         /\ exits' = exits \cup {Exit(CommandOf(Cur(w)), ok)}
    /\ UNCHANGED <<envVars, manifests, reportVars, mainpc, scanVars, fsMutations>>

(***************************************************************************)
(* publishNodeProject.                                                     *)
(***************************************************************************)
PublishReadManifest(w) ==
    /\ op = "publish"
    /\ Running(w, "readFile")
    /\ \E manifest \in Manifests :
         /\ CASE manifest = "bad" -> Complete(w, Outcome(FALSE, "failed", "message", ""))
             [] manifest = "build" ->
                  Goto(w, "pnpmBuild", <<>>, {pnpmVersion(Cur(w), "build")})
             [] OTHER -> Goto(w, "pnpmPublish", <<>>, {pnpmVersion(Cur(w), "publish")})
         /\ manifests' = manifests \cup {Read(Cur(w), manifest)}
    /\ UNCHANGED <<envVars, exits, reportVars, mainpc, scanVars, fsMutations>>

\* checkPnpmAvailable of the build step returned.
PublishPnpmBuild(w) ==
    /\ op = "publish"
    /\ Running(w, "pnpmBuild")
    /\ IF dryRun
       THEN Goto(w, "pnpmPublish", <<>>, {pnpmVersion(Cur(w), "publish")})
       ELSE Goto(w, "execBuild", <<>>, {Exec(Cur(w), "run build", "build")})
    /\ UNCHANGED <<envVars, traceVars, reportVars, mainpc, scanVars, fsMutations>>

\* Mutant: the publish step follows a failed build too.
PublishBuildExitGoesOn(w) ==
    /\ op = "publish"
    /\ Running(w, "execBuild")
    /\ \E ok \in BOOLEAN :
         /\ Goto(w, "pnpmPublish", <<>>, {pnpmVersion(Cur(w), "publish")})
         /\ exits' = exits \cup {Exit(Exec(Cur(w), "run build", "build"), ok)}
    /\ UNCHANGED <<envVars, manifests, reportVars, mainpc, scanVars, fsMutations>>

\* The build command of the publish exits.
PublishBuildExit(w) ==
    /\ op = "publish"
    /\ Running(w, "execBuild")
    /\ \E ok \in BOOLEAN :
         /\ IF ok THEN Goto(w, "pnpmPublish", <<>>, {pnpmVersion(Cur(w), "publish")})
            ELSE Complete(w, Outcome(FALSE, "failed", "stderr", ""))
         /\ exits' = exits \cup {Exit(Exec(Cur(w), "run build", "build"), ok)}
    /\ UNCHANGED <<envVars, manifests, reportVars, mainpc, scanVars, fsMutations>>

\* checkPnpmAvailable of the publish step returned.
PublishPnpmPublish(w) ==
    /\ op = "publish"
    /\ Running(w, "pnpmPublish")
    /\ IF dryRun THEN Complete(w, dryRunOutcome)
       ELSE Goto(w, "exec", <<>>, {Exec(Cur(w), "publish", "publish")})
    /\ UNCHANGED <<envVars, traceVars, reportVars, mainpc, scanVars, fsMutations>>

(***************************************************************************)
(* executeClean.  The glob calls only read; the matched paths are deleted  *)
(* one rm at a time, in the order of the two loops.                        *)
(***************************************************************************)
cleaned == Outcome(TRUE, "cleaned", "", "")

\* The segments of the file-system node a win32 path string names.
SegsOf(p) == IF p.root = "rel" THEN Normalize(cwd.segs \o p.segs) ELSE Normalize(p.segs)

\* rm(..., {recursive: true}) has deleted the node or a directory above it.
Removed(segs) ==
    \E m \in fsMutations :
        /\ m.kind = "rm"
        /\ Len(SegsOf(m.path)) <= Len(segs)
        /\ SubSeq(segs, 1, Len(SegsOf(m.path))) = SegsOf(m.path)

\* The names glob can still find in the project's directory.
NamesLeft(project) ==
    IF Removed(SegsOf(project.path)) THEN {}
    ELSE { n \in NamesIn(project) : ~Removed(Append(SegsOf(project.path), n)) }

\* The globs return (or one throws, and the outer catch returns).  In a dry
\* run every match is only logged.
CleanGlob(w) ==
    /\ op = "clean"
    /\ Running(w, "glob")
    /\ \E ok \in BOOLEAN :
         LET matched == matchedFiles(1, NamesLeft(Cur(w)))
         IN  IF ~ok THEN Complete(w, Outcome(FALSE, "clean-failed", "message", ""))
             ELSE IF dryRun \/ matched = <<>> THEN Complete(w, cleaned)
             ELSE Goto(w, "rm", matched, {})
    /\ UNCHANGED <<envVars, traceVars, reportVars, mainpc, scanVars, fsMutations>>

\* Mutant: after a failed rm the later paths are deleted all the same.
CleanRmGoesOn(w) ==
    /\ op = "clean"
    /\ Running(w, "rm")
    /\ \E ok \in BOOLEAN :
         LET file == Head(workers[w].todo)
             filePath == join(Cur(w).path, NamePath(file))
             failure == Outcome(FALSE, "rm-failed", "message", "")
             last == IF ok /\ workers[w].res.message # "rm-failed" THEN cleaned ELSE failure
         IN  /\ fsMutations' = IF ok THEN fsMutations \cup {Mutation("rm", filePath)}
                                ELSE fsMutations
             /\ IF Tail(workers[w].todo) = <<>> THEN Complete(w, last)
                ELSE /\ workers' = [workers EXCEPT ![w].todo = Tail(@),
                                                   ![w].res = IF ok THEN @ ELSE failure]
                     /\ UNCHANGED <<projects, processed, invoked, results, execs>>
    /\ UNCHANGED <<envVars, traceVars, reportVars, mainpc, scanVars>>

\* await rm(filePath, {recursive, force}) returns or throws.
CleanRm(w) ==
    /\ op = "clean"
    /\ Running(w, "rm")
    /\ \E ok \in BOOLEAN :
         LET file == Head(workers[w].todo)
             filePath == join(Cur(w).path, NamePath(file))
         IN  IF ~ok
             THEN /\ Complete(w, Outcome(FALSE, "rm-failed", "message", ""))
                  /\ UNCHANGED fsMutations
             ELSE /\ fsMutations' = fsMutations \cup {Mutation("rm", filePath)}
                  /\ IF Tail(workers[w].todo) = <<>> THEN Complete(w, cleaned)
                     ELSE Goto(w, "rm", Tail(workers[w].todo), {})
    /\ UNCHANGED <<envVars, traceVars, reportVars, mainpc, scanVars>>

(***************************************************************************)
(* executeZip.                                                             *)
(***************************************************************************)
ZipManifests == {"bad", "plain", "zip", "excluded"}


Survivors(project, manifest) ==
    filesToCompress(configFiles(project, manifest), NamesIn(project),
                    configExclude(project, manifest))

\* readCompressionConfig of a node project returned; the dry-run return.
ZipReadConfig(w) ==
    /\ op = "zip"
    /\ Running(w, "readFile")
    /\ \E manifest \in ZipManifests :
         /\ IF dryRun
            THEN Complete(w, Outcome(TRUE, "dry-run", "", outputOf(Cur(w), manifest)))
            ELSE /\ workers' = [workers EXCEPT ![w] =
                       Worker("stat", <<Cur(w)>>,
                              Outcome(TRUE, "ok", "", outputOf(Cur(w), manifest)),
                              Survivors(Cur(w), manifest))]
                 /\ UNCHANGED <<projects, processed, invoked, results, execs>>
         /\ manifests' = manifests \cup {Read(Cur(w), manifest)}
    /\ UNCHANGED <<envVars, exits, reportVars, mainpc, scanVars, fsMutations>>

\* Mutant: the output file is opened before the list is tested.
ZipStatOpensFirst(w) ==
    /\ op = "zip"
    /\ Running(w, "stat")
    /\ fsMutations' = fsMutations \cup
         {Mutation("write", join(Cur(w).path, NamePath(workers[w].res.outputFile)))}
    /\ IF workers[w].todo = <<>>
       THEN Complete(w, Outcome(FALSE, "nothing-to-compress", "", ""))
       ELSE Goto(w, "archive", workers[w].todo, {})
    /\ UNCHANGED <<envVars, traceVars, reportVars, mainpc, scanVars>>

\* The stat loop is over: nothing to compress, or createWriteStream.
ZipStat(w) ==
    /\ op = "zip"
    /\ Running(w, "stat")
    /\ IF workers[w].todo = <<>>
       THEN /\ Complete(w, Outcome(FALSE, "nothing-to-compress", "", ""))
            /\ UNCHANGED fsMutations
       ELSE /\ Goto(w, "archive", workers[w].todo, {})
            /\ fsMutations' = fsMutations \cup
                 {Mutation("write", join(Cur(w).path, NamePath(workers[w].res.outputFile)))}
    /\ UNCHANGED <<envVars, traceVars, reportVars, mainpc, scanVars>>

\* await archive.finalize() returns.
ZipFinalize(w) ==
    /\ op = "zip"
    /\ Running(w, "archive")
    /\ Complete(w, workers[w].res)
    /\ UNCHANGED <<envVars, traceVars, reportVars, mainpc, scanVars, fsMutations>>

\* stat of the second loop or finalize throws inside the try: the catch.
ZipCaught(w) ==
    /\ op = "zip"
    /\ Running(w, "archive")
    /\ Complete(w, Outcome(FALSE, "zip-failed", "message", ""))
    /\ UNCHANGED <<envVars, traceVars, reportVars, mainpc, scanVars, fsMutations>>

\* The archive emits "error" (or a warning that is not ENOENT) and the
\* listener throws, or the output stream emits "error" and has no listener:
\* the exception is raised from the event loop, outside every try, and the
\* process ends.
ZipUncaught(w) ==
    /\ op = "zip"
    /\ Running(w, "archive")
    /\ mainpc' = "crashed"
    /\ exitCode' = <<1>>
    /\ UNCHANGED <<envVars, traceVars, report, scanVars, projects, queueVars>>

(***************************************************************************)
(* The inputs: platform and working directory, the root arguments, the     *)
(* unreadable directories, and the command line.                           *)
(***************************************************************************)
\* process.cwd(): "C:\w" on win32, "/w" on posix.
cwdOf ==
    [win32 |-> Path("drive", <<"w">>, FALSE), posix |-> Path("posix", <<"w">>, FALSE)]

\* ".", "a", "a/", "a/b", "a/node_modules", "C:\w\a", "\w\a", "/w/a"
RootArgs ==
    { Path("rel", <<".">>, FALSE), Path("rel", <<"a">>, FALSE),
      Path("rel", <<"a">>, TRUE), Path("rel", <<"a", "b">>, FALSE),
      Path("rel", <<"a", "node_modules">>, FALSE),
      Path("drive", <<"w", "a">>, FALSE), Path("bslash", <<"w", "a">>, FALSE),
      Path("posix", <<"w", "a">>, FALSE) }

RootLists == UNION { [1..n -> RootArgs] : n \in 0..MaxRoots }

UnreadableSets == { {}, {<<"w", "a">>}, {<<"w", "a", "b">>} }

Ops == {"publish", "build", "zip", "clean"}

\* The command line the scan cases are run with.
ScanCases ==
    [platform : {"win32", "posix"}, unreadable : UnreadableSets,
     directories : RootLists, op : {"clean"}, dryRun : {TRUE}, concurrency : {1},
     output : {DefaultOutput}]

\* The roots the queue cases are run on: ".", "a a/", ". a/node_modules"
\* and "a/b a/b/" (two .NET projects).
QueueRoots ==
    { <<Path("rel", <<".">>, FALSE)>>,
      <<Path("rel", <<"a">>, FALSE), Path("rel", <<"a">>, TRUE)>>,
      <<Path("rel", <<".">>, FALSE), Path("rel", <<"a", "node_modules">>, FALSE)>>,
      <<Path("rel", <<"a", "b">>, FALSE), Path("rel", <<"a", "b">>, TRUE)>> }

\* --output is an option of the archive script only.
QueueCases ==
    { c \in [platform : {"win32"}, unreadable : {{}}, directories : QueueRoots,
             op : Ops, dryRun : BOOLEAN, concurrency : -1..MaxConcurrency,
             output : Outputs] :
        c.op # "zip" => c.output = DefaultOutput }

Init ==
    /\ \E c \in ScanCases \cup QueueCases :
         /\ platform = c.platform
         /\ cwd = cwdOf[c.platform]
         /\ unreadable = c.unreadable
         /\ op = c.op
         /\ directories = c.directories
         /\ dryRun = c.dryRun
         /\ concurrency = c.concurrency
         /\ output = c.output
    /\ probeDir = cwd
    /\ probeEntries = <<>>
    /\ detected = <<>>
    /\ probeFiles = <<>>
    /\ probeExclude = <<>>
    /\ added = <<>>
    /\ mainpc = "scan"
    /\ stack = <<Frame(directories)>>
    /\ visited = {}
    /\ listed = <<>>
    /\ discovered = <<>>
    /\ projects = <<>>
    /\ results = <<>>
    /\ processed = 0
    /\ workers = <<>>
    /\ invoked = <<>>
    /\ execs = {}
    /\ fsMutations = {}
    /\ manifests = {}
    /\ exits = {}
    /\ report = NoReport
    /\ exitCode = <<>>

Step(w) ==
    \/ Resume(w)
    \/ BuildReadManifest(w)
    \/ BuildPnpmChecked(w)
    \/ ExecExit(w)
    \/ PublishReadManifest(w)
    \/ PublishPnpmBuild(w)
    \/ PublishBuildExit(w)
    \/ PublishPnpmPublish(w)
    \/ CleanGlob(w)
    \/ CleanRm(w)
    \/ ZipReadConfig(w)
    \/ ZipStat(w)
    \/ ZipFinalize(w)
    \/ ZipCaught(w)
    \/ ZipUncaught(w)

Next ==
    \/ ScanVisited
    \/ ScanReaddir
    \/ ScanReaddirFails
    \/ ScanReturn
    \/ ScanDone
    \/ StartWorkers
    \/ \E w \in 1..MaxConcurrency : Step(w)
    \/ Report

Spec == Init /\ [][Next]_vars

(***************************************************************************)
(* The dispatch runs under fairness: the event loop runs a continuation    *)
(* that is due, and every input/output and external process a strategy     *)
(* waits for ends.                                                         *)
(***************************************************************************)
InitLive == Init /\ directories \in QueueRoots

\* The steps of the dispatch: everything main does after the scan.
Dispatch ==
    \/ StartWorkers
    \/ \E w \in 1..MaxConcurrency : Step(w)
    \/ Report

SpecLive == InitLive /\ [][Next]_vars /\ WF_vars(Dispatch)

(***************************************************************************)
(* detectProject on its own: every listing of up to MaxEntries entries.    *)
(***************************************************************************)
DetectNames ==
    { "package.json", "app.csproj", "lib.vbproj", "m.fsproj", ".csproj", "readme.md" }

Listings ==
    UNION { [1..n -> { Entry(name, d) : name \in DetectNames, d \in BOOLEAN }] :
              n \in 0..MaxEntries }

\* "C:\w\a" and "/w/a/"
DetectDirs == { Path("drive", <<"w", "a">>, FALSE), Path("posix", <<"w", "a">>, TRUE) }

InitDetect ==
    /\ platform = "win32"
    /\ cwd = cwdOf["win32"]
    /\ unreadable = {}
    /\ op = "build"
    /\ directories = <<>>
    /\ dryRun = TRUE
    /\ concurrency = 1
    /\ output = DefaultOutput
    /\ probeDir \in DetectDirs
    /\ probeEntries \in Listings
    /\ detected = <<>>
    /\ probeFiles = <<>>
    /\ probeExclude = <<>>
    /\ added = <<>>
    /\ mainpc = "detect"
    /\ stack = <<>>
    /\ visited = {}
    /\ listed = <<>>
    /\ discovered = <<>>
    /\ projects = <<>>
    /\ results = <<>>
    /\ processed = 0
    /\ workers = <<>>
    /\ invoked = <<>>
    /\ execs = {}
    /\ fsMutations = {}
    /\ manifests = {}
    /\ exits = {}
    /\ report = NoReport
    /\ exitCode = <<>>

Detect ==
    /\ mainpc = "detect"
    /\ detected' = detectProject(probeDir, probeEntries)
    /\ mainpc' = "detected"
    /\ UNCHANGED <<platform, cwd, unreadable, op, directories, dryRun, concurrency,
                   output,
                   probeDir, probeEntries, probeFiles, probeExclude, added,
                   scanVars, projects, queueVars, traceVars, reportVars>>

NextDetect == Detect

SpecDetect == InitDetect /\ [][NextDetect]_vars

(***************************************************************************)
(* The file selection of executeZip on its own: every inclusion list and   *)
(* every exclusion list of up to MaxPatterns entries, in a project         *)
(* directory that holds a directory, a file, and a socket.                 *)
(***************************************************************************)
\* stat(join(project.path, pattern)): what the path is, "missing" when stat
\* throws.
statOf(pattern) ==
    CASE pattern = "dist" -> "directory"
      [] pattern = "debug.log" -> "file"
      [] pattern = "sock" -> "socket"
      [] OTHER -> "missing"

ProbeFiles == {"dist", "debug.log", "sock", "out"}

ProbePatterns == {"dist", "*.log", "de*", "*is*", "*", "d*t"}

\* fileStat.isDirectory() || fileStat.isFile()
ProbeNames == { f \in ProbeFiles : statOf(f) \in {"directory", "file"} }

\* archive.directory(fullPath, basename(filePattern)) or
\* archive.file(fullPath, {name: basename(filePattern)})
ArchiveEntry(filePattern) ==
    [name |-> basename(filePattern),
     kind |-> IF statOf(filePattern) = "directory" THEN "directory" ELSE "file"]

InitZipList ==
    /\ platform = "win32"
    /\ cwd = cwdOf["win32"]
    /\ unreadable = {}
    /\ op = "zip"
    /\ directories = <<>>
    /\ dryRun = FALSE
    /\ concurrency = 1
    /\ output = DefaultOutput
    /\ probeDir = Path("drive", <<"w", "c">>, FALSE)
    /\ probeEntries = <<>>
    /\ detected = <<>>
    /\ probeFiles \in UNION { [1..n -> ProbeFiles] : n \in 0..MaxPatterns }
    /\ probeExclude \in UNION { [1..n -> ProbePatterns] : n \in 0..MaxPatterns }
    /\ added = <<>>
    /\ mainpc = "zipList"
    /\ stack = <<>>
    /\ visited = {}
    /\ listed = <<>>
    /\ discovered = <<>>
    /\ projects = <<>>
    /\ results = <<>>
    /\ processed = 0
    /\ workers = <<>>
    /\ invoked = <<>>
    /\ execs = {}
    /\ fsMutations = {}
    /\ manifests = {}
    /\ exits = {}
    /\ report = NoReport
    /\ exitCode = <<>>

\* The two loops of executeZip: the selection, then the entries are added.
ZipList ==
    /\ mainpc = "zipList"
    /\ LET selected == filesToCompress(probeFiles, ProbeNames, probeExclude)
       IN  added' = [i \in 1..Len(selected) |-> ArchiveEntry(selected[i])]
    /\ mainpc' = "zipListed"
    /\ UNCHANGED <<platform, cwd, unreadable, op, directories, dryRun, concurrency,
                   output,
                   probeDir, probeEntries, detected, probeFiles, probeExclude,
                   scanVars, projects, queueVars, traceVars, reportVars>>

NextZipList == ZipList

SpecZipList == InitZipList /\ [][NextZipList]_vars

(***************************************************************************)
(* Properties.                                                             *)
(***************************************************************************)
Range(seq) == { seq[i] : i \in 1..Len(seq) }

\* How many results are about project p.
ResultsOf(p) == Cardinality({ i \in 1..Len(results) : results[i].project = p })

\* How many times project p stands in the sequence of projects seq.
Occurrences(seq, p) == Cardinality({ i \in 1..Len(seq) : seq[i] = p })

InFlight == Len(invoked) - Len(results)

\* C1: when a run with concurrency >= 1 completes, results has one entry per
\* discovered project: as many results as projects, and each project path
\* as often among the results as among the discovered projects, under
\* every interleaving of the workers.
C1_ExactlyOneResult ==
    (mainpc = "done" /\ concurrency >= 1) =>
        /\ Len(results) = Len(discovered)
        /\ \A p \in Range(discovered) \cup { r.project : r \in Range(results) } :
              ResultsOf(p) = Occurrences(discovered, p)

\* A completed run of several workers whose results are not in discovery
\* order and hold a failure.
C1_Witness ==
    /\ mainpc = "done"
    /\ concurrency >= 2
    /\ Len(results) = 4
    /\ results[1].project # discovered[1]
    /\ \E i \in 1..Len(results) : ~results[i].success

\* C2: with concurrency N >= 1, the strategy calls started and not yet
\* answered by a ProcessResult are never more than N.
C2_AtMostNInFlight ==
    concurrency >= 1 =>
        /\ InFlight <= concurrency
        /\ Cardinality({ w \in DOMAIN workers : workers[w].cur # <<>> }) = InFlight

\* N = 2 calls are outstanding, one result is in, and work is left.
C2_Witness ==
    /\ concurrency = 2
    /\ InFlight = 2
    /\ Len(results) >= 1
    /\ projects # <<>>

\* C3: no queue entry is handed to a strategy twice, and a project that has
\* its result (failed or not) is neither in the queue nor in flight again.
C3_InvokedOnce ==
    /\ \A p \in Range(invoked) : Occurrences(invoked, p) = 1
    /\ \A r \in Range(results) :
          /\ r.project \notin Range(projects)
          /\ \A w \in DOMAIN workers : workers[w].cur # <<r.project>>
          /\ ResultsOf(r.project) = 1

\* A run that is over, in which a project failed and every project was
\* handed out.
C3_Witness ==
    /\ mainpc = "done"
    /\ concurrency >= 2
    /\ Len(invoked) = 4
    /\ \E i \in 1..Len(results) : ~results[i].success /\ i < Len(results)

\* The step in which worker w records a failed result.
RecordsFailure(w) ==
    /\ w \in DOMAIN workers
    /\ workers[w].cur # <<>>
    /\ Len(results') = Len(results) + 1
    /\ SubSeq(results', 1, Len(results)) = results
    /\ results'[Len(results')].project = workers[w].cur[1]
    /\ ~results'[Len(results')].success

\* C4: a worker that records a failed result goes on: in the same step it
\* takes the head of the queue when there is one (and leaves the loop only
\* when the queue is empty); and when the run is over every discovered
\* project has its own result, failures included.
C4_FailureStep ==
    \A w \in 1..MaxConcurrency :
        RecordsFailure(w) =>
            /\ mainpc' = mainpc
            /\ IF projects # <<>>
               THEN /\ workers'[w].cur = <<Head(projects)>>
                    /\ projects' = Tail(projects)
               ELSE workers'[w].pc = "exited"

C4_FailureContained ==
    /\ [][C4_FailureStep]_vars
    /\ [](mainpc = "done" /\ concurrency >= 1 =>
            \A p \in Range(discovered) : ResultsOf(p) = 1)

\* One worker: the first project failed and the later ones were processed.
C4_Witness ==
    /\ mainpc = "done"
    /\ concurrency = 1
    /\ Len(results) >= 3
    /\ ~results[1].success
    /\ results[3].success

\* C5: an error raised while a strategy runs is turned into a failed
\* ProcessResult of its project and never ends the run: main is never left
\* by an uncaught exception.
C5_NeverAborts == mainpc # "crashed"

ScanOver == mainpc \notin {"scan", "detect", "detected", "zipList", "zipListed", "crashed"}

\* The directory a path string names, NoDir when it names none.
DirOf(p) == Resolve(platform, cwd, p)

\* C6: one scan lists each directory at most once and returns each project
\* at most once, however the root arguments spell the directory.
C6_ListedOnce ==
    /\ \A i, j \in 1..Len(listed) :
          (i < j /\ DirOf(listed[i]) # NoDir) => DirOf(listed[i]) # DirOf(listed[j])
    /\ \A i, j \in 1..Len(discovered) :
          i < j => DirOf(discovered[i].path) # DirOf(discovered[j].path)

HasNodeModules(p) == "node_modules" \in Range(p.segs)

\* Every path of a Project found so far, returned or still in a frame.
FoundPaths ==
    { q.path : q \in Range(discovered) }
      \cup UNION { { q.path : q \in Range(stack[k].projects) } : k \in 1..Len(stack) }

\* C7 as claimed: no directory named node_modules is ever listed, root
\* arguments included, and no project in or under one is returned.
C7_NoNodeModulesListed ==
    /\ \A p \in Range(listed) : ~HasNodeModules(p)
    /\ \A p \in FoundPaths : ~HasNodeModules(p)

\* C7 amended: no recursive call of scanDirectories is given a directory
\* named node_modules, and a path that is listed or returned lies in or
\* under a node_modules directory only when a root argument names one.
C7_NoNodeModulesChild ==
    /\ \A k \in 2..Len(stack) : \A d \in Range(stack[k].directories) :
          d.segs[Len(d.segs)] # "node_modules"
    /\ \A p \in Range(listed) \cup FoundPaths :
          HasNodeModules(p) => \E r \in Range(directories) : HasNodeModules(r)

\* The scan of "." on win32 is over: the directories that hold a
\* node_modules entry were listed and three projects were returned.
C7_Witness ==
    /\ ScanOver
    /\ platform = "win32"
    /\ directories = <<Path("rel", <<".">>, FALSE)>>
    /\ unreadable = {}
    /\ Len(discovered) = 3
    /\ \E p \in Range(listed) : DirOf(p) = <<"w", "a">>

IsPrefix(a, b) == Len(a) <= Len(b) /\ SubSeq(b, 1, Len(a)) = a

\* The tree a scan is compared with.  "removed": every unreadable directory
\* is gone with all that is below it, and its parent does not list it.
\* "emptied": every unreadable directory is there and has no entry.
TreeHas(node, tree) ==
    /\ node \in DirNodes
    /\ tree = "removed" => ~\E u \in unreadable : IsPrefix(u, node)

TreeEntries(node, tree) ==
    IF tree = "emptied"
    THEN IF node \in unreadable THEN <<>> ELSE Entries(node)
    ELSE SelectSeq(Entries(node), LAMBDA e : Append(node, e.name) \notin unreadable)

RECURSIVE scanOf(_, _, _)
\* What scanDirectories(dirs, seen) returns on such a tree, where every
\* directory of the tree can be listed: the projects and the visited set.
scanOf(dirs, seen, tree) ==
    IF dirs = <<>> THEN [projects |-> <<>>, visited |-> seen]
    ELSE LET p == fullPathOf(cwd, Head(dirs))
             node == Resolve(platform, cwd, p)
         IN  IF p \in seen THEN scanOf(Tail(dirs), seen, tree)
             ELSE IF ~TreeHas(node, tree)
             THEN scanOf(Tail(dirs), seen \cup {p}, tree)
             ELSE LET ents == TreeEntries(node, tree)
                      sub == scanOf(SelectDirs(p, ents), seen \cup {p}, tree)
                      rest == scanOf(Tail(dirs), sub.visited, tree)
                  IN  [projects |-> detectProject(p, ents) \o sub.projects \o rest.projects,
                       visited |-> rest.visited]

\* C8 as claimed: the list a scan returns is the scan of the tree with the
\* unreadable subtrees removed.
C8_EqualsScanWithoutSubtree ==
    ScanOver => discovered = scanOf(directories, {}, "removed").projects

\* The step in which a listing fails.
ListingFails ==
    /\ Len(listed') = Len(listed) + 1
    /\ ~Readable(listed'[Len(listed')])

\* C8 amended: a failed listing does not end the scan: the calls in
\* progress and the projects they hold stay, the loop goes to its next
\* directory; and the list returned is the scan of the tree in which every
\* unreadable directory is empty (so a root argument below an unreadable
\* directory is still scanned).
C8_FailureSkipsDirectory ==
    /\ [][ListingFails =>
            /\ mainpc' = "scan"
            /\ Len(stack') = Len(stack)
            /\ \A k \in 1..Len(stack) :
                  /\ stack'[k].projects = stack[k].projects
                  /\ stack'[k].directories = stack[k].directories
                  /\ stack'[k].i = IF k = Len(stack) THEN stack[k].i + 1 ELSE stack[k].i]_vars
    /\ [](ScanOver => discovered = scanOf(directories, {}, "emptied").projects)

\* A scan is over in which the listing of "a" failed after a project was
\* found and before another one was.
C8_Witness ==
    /\ ScanOver
    /\ unreadable = {<<"w", "a">>}
    /\ Len(listed) >= 3
    /\ DirOf(listed[2]) = <<"w", "a">>
    /\ Len(discovered) = 2

HasName(listing, name) == \E i \in 1..Len(listing) : listing[i].name = name

\* C9: detectProject returns at most one Project, of type node or dotnet,
\* for the directory it was given; and when an entry is named package.json
\* it returns the node Project whose manifest is <dir>/package.json.
C9_NodePriority ==
    mainpc = "detected" =>
        /\ Len(detected) <= 1
        /\ \A q \in Range(detected) :
              q.type \in {"node", "dotnet"} /\ q.path = probeDir
        /\ HasName(probeEntries, "package.json") =>
              detected = << [path |-> probeDir, type |-> "node",
                             file |-> [root |-> probeDir.root,
                                       segs |-> probeDir.segs \o <<"package.json">>,
                                       trail |-> FALSE]] >>

\* package.json stands last, behind a .csproj and a .vbproj entry.
C9_Witness ==
    /\ mainpc = "detected"
    /\ Len(probeEntries) = 3
    /\ probeEntries[1].name = "app.csproj"
    /\ probeEntries[2].name = "lib.vbproj"
    /\ probeEntries[3].name = "package.json"
    /\ detected # <<>>

\* C10: in a dry run no external process is started, no path is deleted and
\* no file is written.
C10_DryRunNoEffects == dryRun => (execs = {} /\ fsMutations = {})

\* The run went through the dispatch and printed its final report.
Reported == mainpc = "done" /\ discovered # <<>>

\* How many of the lines are the line of result r.
LinesOf(lines, r) ==
    Cardinality({ k \in 1..Len(lines) :
                    /\ lines[k].path = r.project.path
                    /\ lines[k].message = r.message
                    /\ lines[k].error = r.error })

\* C11: in the final report the number of successes plus the number of
\* failures is the number of results, and the failure list holds the
\* results with success = false and nothing else, each one once.
C11_ReportTotals ==
    Reported =>
        /\ report.total = Len(results)
        /\ report.successful + report.failed = Len(results)
        /\ report.failed = Cardinality({ i \in 1..Len(results) : ~results[i].success })
        /\ Len(report.failures) = report.failed
        /\ \A r \in Range(results) :
              LinesOf(report.failures, r) = IF r.success THEN 0 ELSE 1

\* A report with a success, a failure that carries an error text and a
\* failure that carries none.
C11_Witness ==
    /\ Reported
    /\ report.successful >= 1
    /\ \E k \in 1..Len(report.failures) : report.failures[k].error = ""
    /\ \E k \in 1..Len(report.failures) : report.failures[k].error # ""

\* The manifest of project p could not be parsed when the strategy read it.
Malformed(p) == Read(p, "bad") \in manifests

\* C12: a project whose package.json cannot be parsed gets a result with
\* success = false from build, publish and zip alike, and when the run is
\* over every other discovered project has its own result.
C12_MalformedManifestFails ==
    /\ \A r \in Range(results) : Malformed(r.project) => ~r.success
    /\ (mainpc = "done" /\ concurrency >= 1 /\ \E p \in Range(discovered) : Malformed(p)) =>
          \A p \in Range(discovered) : ResultsOf(p) = 1

\* The entries of the inclusion list of project p under manifest m that
\* exist on disk and that no exclusion pattern matches.
Archivable(p, m) ==
    { k \in 1..Len(configFiles(p, m)) :
        /\ configFiles(p, m)[k] \in NamesIn(p)
        /\ ~shouldExclude(configFiles(p, m)[k], configExclude(p, m)) }

\* Project p has been configured (a dotnet project has no manifest to read)
\* and nothing of its inclusion list can be archived.
NothingToArchive(p, read) ==
    IF p.type = "node"
    THEN \E m \in ZipManifests : Read(p, m) \in read /\ Archivable(p, m) = {}
    ELSE Archivable(p, "plain") = {}

\* C13: in a zip run that is not a dry run, a project whose inclusion list
\* has no entry that exists and is not excluded gets the result success =
\* false, the nothing-to-archive message and no error text, and no step of
\* its strategy creates or opens a file.
C13_NothingToArchive ==
    /\ []((op = "zip" /\ ~dryRun) =>
            \A r \in Range(results) :
               NothingToArchive(r.project, manifests) =>
                  /\ ~r.success
                  /\ r.message = "nothing-to-compress"
                  /\ r.error = ""
                  /\ r.outputFile = "")
    /\ [][(op = "zip" /\ ~dryRun) =>
            \A w \in DOMAIN workers :
               (/\ workers[w].cur # <<>>
                /\ workers'[w] # workers[w]
                /\ NothingToArchive(workers[w].cur[1], manifests')) =>
                  fsMutations' = fsMutations]_vars

\* A project whose listed files exist and are all excluded was refused, and
\* the archive of another project was opened.
C13_Witness ==
    /\ op = "zip"
    /\ ~dryRun
    /\ fsMutations # {}
    /\ \E r \in Range(results) :
          /\ Read(r.project, "excluded") \in manifests
          /\ "node_modules" \in NamesIn(r.project)
          /\ r.message = "nothing-to-compress"

\* The external processes started in the directory of project p.
ExecsOf(p) == { e \in execs : e.cwd = p.path }

\* C14: build on a node project whose manifest declares no build script
\* gives the result success = false with the no-build-script message and no
\* error text, starts no external process for it (the pnpm probe included),
\* in a dry run and in a real run alike, does not end the run, and the
\* worker goes on to the next project of the queue in the same step.
C14_NoBuildScript ==
    /\ [](op = "build" =>
            \A p \in Range(discovered) :
               Read(p, "nobuild") \in manifests =>
                  /\ ExecsOf(p) = {}
                  /\ mainpc # "crashed"
                  /\ \E i \in 1..Len(results) :
                        /\ results[i].project = p
                        /\ ~results[i].success
                        /\ results[i].message = "no-build-script"
                        /\ results[i].error = "")
    /\ [][op = "build" =>
            \A w \in DOMAIN workers :
               (/\ workers[w].cur # <<>>
                /\ Read(workers[w].cur[1], "nobuild") \in manifests' \ manifests) =>
                  /\ execs' \ execs \subseteq
                        IF projects = <<>> THEN {} ELSE BeginExecs(Head(projects))
                  /\ IF projects = <<>> THEN workers'[w].pc = "exited"
                     ELSE /\ workers'[w].cur = <<Head(projects)>>
                          /\ projects' = Tail(projects)]_vars

\* A real build run is over: its first project had no build script and a
\* later one was built.
C14_Witness ==
    /\ op = "build"
    /\ ~dryRun
    /\ mainpc = "done"
    /\ Len(results) >= 2
    /\ results[1].message = "no-build-script"
    /\ \E i \in 2..Len(results) : results[i].success

\* The build command and the publish command of a node project.
BuildCommand(p) == Exec(p, "run build", "build")

PublishCommand(p) == Exec(p, "publish", "publish")

\* C15: in a publish run that is not a dry run, for a node project with a
\* build script the publish command is started only after the build command
\* has ended with success; after a failed build the publish command is
\* never started, the result of the project is success = false with the
\* captured error text, and the worker goes on with the queue; for a
\* project without build script no build command is started and the
\* publish command is.
C15_BuildBeforePublish ==
    /\ []((op = "publish" /\ ~dryRun) =>
            \A p \in Range(discovered) :
               /\ (Read(p, "build") \in manifests /\ PublishCommand(p) \in execs) =>
                     /\ BuildCommand(p) \in execs
                     /\ Exit(BuildCommand(p), TRUE) \in exits
               /\ Exit(BuildCommand(p), FALSE) \in exits =>
                     /\ PublishCommand(p) \notin execs
                     /\ pnpmVersion(p, "publish") \notin execs
                     /\ \E i \in 1..Len(results) :
                           /\ results[i].project = p
                           /\ ~results[i].success
                           /\ results[i].error = "stderr"
               /\ Read(p, "nobuild") \in manifests =>
                     /\ BuildCommand(p) \notin execs
                     /\ pnpmVersion(p, "publish") \in execs
                     /\ (ResultsOf(p) = 1 => PublishCommand(p) \in execs))
    /\ [][(op = "publish" /\ ~dryRun) =>
            \A w \in DOMAIN workers :
               (/\ workers[w].cur # <<>>
                /\ Exit(BuildCommand(workers[w].cur[1]), FALSE) \in exits' \ exits) =>
                  /\ mainpc' = mainpc
                  /\ IF projects = <<>> THEN workers'[w].pc = "exited"
                     ELSE /\ workers'[w].cur = <<Head(projects)>>
                          /\ projects' = Tail(projects)]_vars
    /\ []((op = "publish" /\ mainpc = "done" /\ concurrency >= 1) =>
            \A p \in Range(discovered) : ResultsOf(p) = 1)

\* A real publish run is over: the build of one project failed, another
\* project was built and then published, and a third one, without build
\* script, was published directly.
C15_Witness ==
    /\ op = "publish"
    /\ ~dryRun
    /\ mainpc = "done"
    /\ \E p, q, r \in Range(discovered) :
          /\ Exit(BuildCommand(p), FALSE) \in exits
          /\ Exit(BuildCommand(q), TRUE) \in exits
          /\ Exit(PublishCommand(q), TRUE) \in exits
          /\ Read(r, "nobuild") \in manifests
          /\ Exit(PublishCommand(r), TRUE) \in exits

\* No other discovered project names the directory of p.
OwnDirectory(p) ==
    \A q \in Range(discovered) : q # p => SegsOf(q.path) # SegsOf(p.path)

\* The matched paths of project p, in the order executeClean meets them.
MatchedOf(p) == matchedFiles(1, NamesIn(p))

\* The indices of the matched paths of p that have been deleted.
DeletedOf(p) ==
    { k \in 1..Len(MatchedOf(p)) :
        Mutation("rm", join(p.path, NamePath(MatchedOf(p)[k]))) \in fsMutations }

\* C16: in a clean run that is not a dry run, the step in which a deletion
\* fails deletes nothing, records success = false with the error text and
\* lets the worker go on with the queue; of a project whose cleanup failed,
\* the deleted paths are those before the failing one and no later one;
\* nothing deleted is ever restored; and when the run is over every other
\* project has its result, with all its matched paths deleted when it
\* succeeded.
C16_FirstRmFailureStops ==
    /\ [][(op = "clean" /\ ~dryRun) =>
            /\ fsMutations \subseteq fsMutations'
            /\ \A w \in DOMAIN workers :
                  (/\ workers[w].pc = "rm"
                   /\ Len(results') = Len(results) + 1
                   /\ results'[Len(results')].project = workers[w].cur[1]
                   /\ ~results'[Len(results')].success) =>
                     /\ fsMutations' = fsMutations
                     /\ results'[Len(results')].error # ""
                     /\ mainpc' = mainpc
                     /\ IF projects = <<>> THEN workers'[w].pc = "exited"
                        ELSE /\ workers'[w].cur = <<Head(projects)>>
                             /\ projects' = Tail(projects)]_vars
    /\ []((op = "clean" /\ ~dryRun) =>
            \A r \in Range(results) :
               OwnDirectory(r.project) =>
                  IF r.message = "rm-failed"
                  THEN /\ ~r.success
                       /\ r.error # ""
                       /\ \E j \in 0..(Len(MatchedOf(r.project)) - 1) :
                             DeletedOf(r.project) = 1..j
                  ELSE r.success => DeletedOf(r.project) = 1..Len(MatchedOf(r.project)))
    /\ []((op = "clean" /\ mainpc = "done" /\ concurrency >= 1) =>
            \A p \in Range(discovered) : ResultsOf(p) = 1)

\* A real clean run is over: the second deletion of a project failed after
\* its first path was deleted, and a later project was cleaned.
C16_Witness ==
    /\ op = "clean"
    /\ ~dryRun
    /\ mainpc = "done"
    /\ \E i \in 1..Len(results) :
          /\ results[i].message = "rm-failed"
          /\ OwnDirectory(results[i].project)
          /\ DeletedOf(results[i].project) = {1}
          /\ \E k \in (i + 1)..Len(results) :
                /\ results[k].success
                /\ DeletedOf(results[k].project) # {}

\* C17: a run that completes ends with a non-zero exit status when its
\* final report counts at least one failure, and with status zero when it
\* counts none.
C17_ExitStatusFromFailures ==
    mainpc = "done" =>
        /\ exitCode # <<>>
        /\ exitCode[1] # 0 <=> report.failed > 0

\* The platform's own absolute form of a path string.
IsPlatformAbsolute(dir) ==
    IF platform = "posix" THEN dir.root = "posix"
    ELSE dir.root \in {"drive", "bslash"}

\* C18: the directory scanned for a root argument is the argument itself
\* when it is absolute in the platform's form, and the working directory
\* joined with it when it is relative; a project found there has that path.
C18_RootResolution ==
    (InLoop /\ Len(stack) = 1) =>
        LET dir == Top.directories[Top.i]
        IN  /\ IsPlatformAbsolute(dir) => fullPath = dir
            /\ dir.root = "rel" =>
                  fullPath = [root |-> cwd.root,
                              segs |-> Normalize(cwd.segs \o dir.segs),
                              trail |-> dir.trail]

\* C19: a scan lists no more directories than there are distinct
\* directories behind the paths it lists: no directory is opened twice,
\* whatever the root list and the links of the tree.
C19_ListingsBounded ==
    LET opened == { i \in 1..Len(listed) : DirOf(listed[i]) # NoDir }
    IN  Cardinality(opened) <= Cardinality({ DirOf(listed[i]) : i \in opened })

\* Entry i of the probed listing has one of the three .NET extensions.
IsDotnetEntry(i) ==
    \E x \in {".csproj", ".vbproj", ".fsproj"} : extname(probeEntries[i].name) = x

\* C20: for a listing without package.json, detectProject returns the
\* dotnet Project of the directory whose file is the earliest entry with
\* the extension .csproj, .vbproj or .fsproj, and nothing when there is no
\* such entry; the call changes nothing but its return value.
C20_FirstDotnetMatch ==
    /\ []((mainpc = "detected" /\ ~HasName(probeEntries, "package.json")) =>
            IF \E i \in 1..Len(probeEntries) : IsDotnetEntry(i)
            THEN \E i \in 1..Len(probeEntries) :
                    /\ IsDotnetEntry(i)
                    /\ \A j \in 1..(i - 1) : ~IsDotnetEntry(j)
                    /\ detected = << [path |-> probeDir, type |-> "dotnet",
                                      file |-> [root |-> probeDir.root,
                                                segs |-> Append(probeDir.segs,
                                                                probeEntries[i].name),
                                                trail |-> FALSE]] >>
            ELSE detected = <<>>)
    /\ [][mainpc = "detect" =>
            /\ probeDir' = probeDir
            /\ probeEntries' = probeEntries
            /\ execs' = execs
            /\ fsMutations' = fsMutations
            /\ listed' = listed
            /\ visited' = visited]_vars

\* Three entries with different .NET extensions behind no package.json: the
\* first one was taken.
C20_Witness ==
    /\ mainpc = "detected"
    /\ Len(probeEntries) = 3
    /\ probeEntries[1].name = "lib.vbproj"
    /\ probeEntries[2].name = "m.fsproj"
    /\ probeEntries[3].name = "app.csproj"
    /\ detected # <<>>
    /\ detected[1].file.segs[Len(detected[1].file.segs)] = "lib.vbproj"

\* The directory has a project file: package.json or a .NET project file.
IsProjectDir(node) ==
    \E i \in 1..Len(Entries(node)) :
        \/ Entries(node)[i].name = "package.json"
        \/ extname(Entries(node)[i].name) \in {".csproj", ".vbproj", ".fsproj"}

\* The subdirectories of a directory in listing order, node_modules left out.
ChildNodes(node) ==
    LET dirs == SelectSeq(Entries(node),
                          LAMBDA e : e.isDirectory /\ e.name # "node_modules")
    IN  [i \in 1..Len(dirs) |-> Append(node, dirs[i].name)]

RECURSIVE preOrder(_, _)
\* The depth-first pre-order walk of the directories nodes, each directory
\* once: a project directory, then what is below it, then its later siblings.
\* A directory that cannot be listed is skipped.
preOrder(nodes, seen) ==
    IF nodes = <<>> THEN [projects |-> <<>>, seen |-> seen]
    ELSE LET node == Head(nodes)
         IN  IF node \in seen \/ node \notin DirNodes \/ node \in unreadable
             THEN preOrder(Tail(nodes), seen \cup {node})
             ELSE LET below == preOrder(ChildNodes(node), seen \cup {node})
                      rest == preOrder(Tail(nodes), below.seen)
                  IN  [projects |-> (IF IsProjectDir(node) THEN <<node>> ELSE <<>>)
                                      \o below.projects \o rest.projects,
                       seen |-> rest.seen]

\* The directories the root arguments name on the platform.
RootNodes == [i \in 1..Len(directories) |-> Resolve(platform, cwd, directories[i])]

\* C21: the list a scan returns is the depth-first pre-order of the trees
\* below the roots, roots in argument order: a project directory stands
\* before the projects below it, the projects below an earlier sibling
\* before those below a later one, and the directories below a project are
\* scanned too.
C21_DepthFirstPreOrder ==
    ScanOver =>
        [i \in 1..Len(discovered) |-> DirOf(discovered[i].path)]
            = preOrder(RootNodes, {}).projects

\* The step in which the strategy call of worker w returns to its loop.
Returns(w) ==
    /\ w \in DOMAIN workers
    /\ workers[w].cur # <<>>
    /\ workers'[w].cur # workers[w].cur

\* C22: results only grows at its end: the result of a project is appended
\* in the step in which its strategy call returns to the worker, one result
\* per return, and the entries already there keep their value and place;
\* among calls that returned without waiting, the earlier call is recorded
\* first.
C22_AppendOnlyCompletionOrder ==
    [][/\ Len(results') >= Len(results)
       /\ SubSeq(results', 1, Len(results)) = results
       /\ Len(results') <= Len(results) + 1
       /\ (Len(results') = Len(results) + 1) <=> (\E w \in 1..MaxConcurrency : Returns(w))
       /\ \A w \in 1..MaxConcurrency :
             Returns(w) =>
                /\ results'[Len(results')].project = workers[w].cur[1]
                /\ \A v \in DOMAIN workers :
                      (v # w /\ workers[v].pc = "settled") =>
                         /\ workers[w].pc = "settled"
                         /\ CallIndex(workers[w].cur[1]) < CallIndex(workers[v].cur[1])]_vars

\* Results stand in an order that is not the discovery order: the second
\* discovered project finished first.
C22_Witness ==
    /\ concurrency >= 2
    /\ Len(results) >= 2
    /\ results[1].project = discovered[2]
    /\ results[2].project = discovered[1]

\* The run is over: nothing is queued, every worker has left its loop and
\* the final report is printed.
Completed ==
    /\ mainpc = "done"
    /\ projects = <<>>
    /\ \A w \in DOMAIN workers : workers[w].pc = "exited"
    /\ discovered # <<>> => report.total = Len(discovered)

\* C23: a dispatch started with N >= 1 workers in which every strategy call
\* returns is eventually over (a call that does not return is one that ends
\* the process); and as long as the dispatch is not over one of its steps
\* can be taken: no worker waits on the empty queue.
C23_EventuallyCompletes ==
    /\ (mainpc = "start" /\ concurrency >= 1) ~> (Completed \/ mainpc = "crashed")
    /\ [](mainpc \in {"start", "await"} => ENABLED Dispatch)

\* A run of three workers on four projects is over.
C23_Witness ==
    /\ Completed
    /\ concurrency = 3
    /\ Len(results) = 4

\* Pattern matches the base name as the claim reads a pattern: "*" on both
\* sides is a substring pattern, a leading "*" a suffix pattern, a trailing
\* "*" a prefix pattern, anything else the name itself.
Matches(name, pattern) ==
    LET n == Chars(name)
        p == Chars(pattern)
        stars == { i \in {1, Len(p)} : p[i] = "*" }
    IN  IF p # <<>> /\ stars = {1, Len(p)}
        THEN \E i, j \in 0..Len(n) :
                i <= j /\ SubSeq(n, i + 1, j) = SubSeq(p, 2, Len(p) - 1)
        ELSE IF p # <<>> /\ 1 \in stars
        THEN \E i \in 0..Len(n) : SubSeq(n, i + 1, Len(n)) = Tail(p)
        ELSE IF p # <<>> /\ Len(p) \in stars
        THEN \E j \in 0..Len(n) : SubSeq(n, 1, j) = SubSeq(p, 1, Len(p) - 1)
        ELSE name = pattern

\* The entry of the inclusion list is to be archived.
ToArchive(f) ==
    /\ statOf(f) \in {"file", "directory"}
    /\ \A k \in 1..Len(probeExclude) : ~Matches(f, probeExclude[k])

\* C24: the entries added to the archive are the entries of the inclusion
\* list that exist as a file or a directory and whose base name no exclusion
\* pattern matches, each as often and in the order of the inclusion list.
C24_ArchivedEntries ==
    mainpc = "zipListed" =>
        LET expected == SelectSeq(probeFiles, ToArchive)
        IN  /\ Len(added) = Len(expected)
            /\ \A i \in 1..Len(expected) :
                  /\ added[i].name = expected[i]
                  /\ added[i].kind = statOf(expected[i])

\* A directory passes a suffix pattern and a prefix pattern that do not
\* match it, behind a file the suffix pattern excludes.
C24_Witness ==
    /\ mainpc = "zipListed"
    /\ probeFiles = <<"debug.log", "dist">>
    /\ probeExclude = <<"*.log", "de*">>
    /\ Len(added) = 1
    /\ added[1].name = "dist"

\* The dispatch has its queue: from the end of the scan on.
Dispatching == mainpc \in {"start", "await", "done", "crashed"}

\* The projects popped whose result is not yet appended.
InFlightProjects == { workers[w].cur[1] : w \in { v \in DOMAIN workers : workers[v].cur # <<>> } }

ResultProjects == { results[i].project : i \in 1..Len(results) }

\* C25: in every state of a dispatch the queued projects, the projects in
\* flight and the projects with a result are pairwise disjoint and are
\* together the discovered projects; their numbers add up to the number
\* discovered, and processed is that number minus the length of the queue.
C25_Conservation ==
    Dispatching =>
        /\ Range(projects) \cap InFlightProjects = {}
        /\ Range(projects) \cap ResultProjects = {}
        /\ InFlightProjects \cap ResultProjects = {}
        /\ Range(projects) \cup InFlightProjects \cup ResultProjects = Range(discovered)
        /\ Len(projects) + Cardinality(InFlightProjects) + Len(results) = Len(discovered)
        /\ processed = Len(discovered) - Len(projects)

\* Two projects are in flight, one has its result and one is queued.
C25_Witness ==
    /\ mainpc = "await"
    /\ Len(projects) = 1
    /\ Cardinality(InFlightProjects) = 2
    /\ Len(results) = 1
    /\ processed = 3

\* C26: the strategy calls are made in discovery order: at every moment
\* the calls made so far are on the first discovered projects, in order,
\* and the queue holds the rest in order; with one worker the results
\* stand in discovery order.
C26_StartedInDiscoveryOrder ==
    Dispatching =>
        /\ Len(invoked) <= Len(discovered)
        /\ \A i \in 1..Len(invoked) : invoked[i] = discovered[i]
        /\ \A i \in 1..Len(projects) : projects[i] = discovered[Len(invoked) + i]
        /\ concurrency = 1 => \A i \in 1..Len(results) : results[i].project = discovered[i]

\* Every project was started, by several workers, and the results are not
\* in discovery order.
C26_Witness ==
    /\ concurrency >= 2
    /\ Len(invoked) = 4
    /\ Len(results) >= 2
    /\ results[1].project = discovered[3]

\* C27: with a concurrency of 0 or less and a project discovered, no worker
\* is started: the dispatch ends with the queue as the scan left it, no
\* strategy call, no result, no effect, and a report of 0 successes and 0
\* failures.
C27_NoWorkerBelowOne ==
    /\ []((concurrency < 1 /\ discovered # <<>> /\ Dispatching) =>
            /\ projects = discovered
            /\ \A w \in DOMAIN workers : FALSE
            /\ invoked = <<>>
            /\ results = <<>>
            /\ processed = 0
            /\ execs = {}
            /\ fsMutations = {}
            /\ mainpc # "crashed"
            /\ mainpc = "done" =>
                  /\ report.total = 0
                  /\ report.successful = 0
                  /\ report.failed = 0
                  /\ report.failures = <<>>)
    /\ (concurrency < 1 /\ mainpc = "start") ~> (mainpc = "done")

\* The run with concurrency -1 on four projects is over.
C27_Witness ==
    /\ concurrency = -1
    /\ mainpc = "done"
    /\ Len(projects) = 4
    /\ report.total = 0

\* The step in which worker w leaves its loop.
Exits(w) ==
    /\ w \in DOMAIN workers'
    /\ workers'[w].pc = "exited"
    /\ w \in DOMAIN workers => workers[w].pc # "exited"

\* C28: a worker leaves its loop only on the empty queue and the queue
\* never grows; so while the queue holds a project no worker has left, all
\* N workers hold a project, and fewer than N projects are in flight only
\* when fewer than N are unfinished.
C28_WorkConserving ==
    /\ [][/\ \A w \in 1..MaxConcurrency : Exits(w) => projects' = <<>>
          /\ mainpc \in {"start", "await"} =>
                /\ Len(projects') <= Len(projects)
                /\ SubSeq(projects, Len(projects) - Len(projects') + 1, Len(projects))
                      = projects']_vars
    /\ []((mainpc = "await" /\ concurrency >= 1) =>
            /\ projects # <<>> =>
                  /\ \A w \in DOMAIN workers : workers[w].pc # "exited"
                  /\ InFlight = concurrency
            /\ InFlight < concurrency => Len(discovered) - Len(results) < concurrency)

\* Three workers on four projects: a worker has left, two are still at work.
C28_Witness ==
    /\ mainpc = "await"
    /\ concurrency = 3
    /\ Len(discovered) = 4
    /\ InFlight = 2
    /\ \E w \in DOMAIN workers : workers[w].pc = "exited"

\* The package.json of project p set zip.output.
Overrides(p) == p.type = "node" /\ Read(p, "zip") \in manifests

\* C29: the template of an archive's file name is the one of package.json's
\* zip.output when the manifest has it, otherwise the --output template of
\* the command line, otherwise the built-in default: a project without
\* zip.output run with a non-default --output gets its file name from
\* --output.
C29_OutputTemplatePriority ==
    op = "zip" =>
        \A r \in Range(results) :
           (r.success /\ r.outputFile # "") =>
              r.outputFile = (IF Overrides(r.project) THEN "manifest" ELSE output)

\* C30: a zip dry run returns success with an output file name only for a
\* project whose archive the real run on the same file system would
\* produce: a project with no existing, non-excluded entry of its inclusion
\* list fails in the dry run too.
C30_DryRunAgrees ==
    (op = "zip" /\ dryRun) =>
        \A r \in Range(results) :
           NothingToArchive(r.project, manifests) => ~r.success

=============================================================================
